---- MODULE Spec2Model ----
(***************************************************************************)
(* Model of runtime-fmt's codegen support module (src/src/codegen.rs):     *)
(* the nine format traits with their specialization-based `allowed` /      *)
(* `perform`, `get_formatter`, `get_as_usize`, and the `FormatArgs`        *)
(* contract that derived implementations expose to the template            *)
(* interpreter.                                                            *)
(*                                                                         *)
(* Strings are TLA+ strings; a Formatter is modelled by the text already   *)
(* written to its sink and the room the sink has left (default formatting  *)
(* options: no width, precision or flags).                                 *)
(***************************************************************************)
EXTENDS Integers, Sequences, FiniteSets, TLC

VARIABLES This, built, desc, last, held, validated

vars == <<This, built, desc, last, held, validated>>

-----------------------------------------------------------------------------
(* Bounds of the exploration *)

\* Descriptor queries probe the indices 0 .. MaxIndex.
MaxIndex == 3

\* The largest sink room tried; large enough for every rendering below.
MaxRoom == 10

-----------------------------------------------------------------------------
(* Option / panic outcomes *)

None == [tag |-> "None"]

Some(x) == [tag |-> "Some", val |-> x]

Panic == [tag |-> "Panic"]

IsSome(r) == r.tag = "Some"

-----------------------------------------------------------------------------
(* The format traits and the field types exercised *)

\* impl_format_trait! { Display, Debug, LowerExp, ... }
FormatTraits ==
    {"Display", "Debug", "LowerExp", "UpperExp", "Octal", "Pointer",
     "Binary", "LowerHex", "UpperHex"}

\* Value types used for fields: the index type, another integer width, a
\* float, an owned string, a raw pointer and a struct with no fmt impls.
Types == {"usize", "u32", "f64", "String", "ptr", "Opaque"}

IntegerTraits ==
    {"Display", "Debug", "LowerExp", "UpperExp", "Octal", "Binary",
     "LowerHex", "UpperHex"}

\* The bound `T: $name` of the specialized impl: which std::fmt traits each
\* value type implements (integers implement LowerExp/UpperExp since 1.42).
Implements(T, name) ==
    CASE T \in {"usize", "u32"} -> name \in IntegerTraits
      [] T = "f64"    -> name \in {"Display", "Debug", "LowerExp", "UpperExp"}
      [] T = "String" -> name \in {"Display", "Debug"}
      [] T = "ptr"    -> name \in {"Pointer", "Debug"}
      [] OTHER        -> FALSE

\* Sample values per type.  Integers and pointers are their numeric value,
\* an f64 is given as its count of halves (3 is 1.5), a String is its text.
ValueOf(T, variant) ==
    CASE T \in {"usize", "u32"} -> IF variant = 1 THEN 10 ELSE 255
      [] T = "f64"    -> IF variant = 1 THEN 3 ELSE 4
      [] T = "String" -> IF variant = 1 THEN "ab" ELSE ""
      [] T = "ptr"    -> IF variant = 1 THEN 0 ELSE 4096
      [] OTHER        -> 0

Variants == {1, 2}

-----------------------------------------------------------------------------
(* Rendering: what `t.fmt(f)` writes for each trait and type *)

LowerDigits == <<"0", "1", "2", "3", "4", "5", "6", "7", "8", "9",
                 "a", "b", "c", "d", "e", "f">>

UpperDigits == <<"0", "1", "2", "3", "4", "5", "6", "7", "8", "9",
                 "A", "B", "C", "D", "E", "F">>

RECURSIVE Radix(_, _, _)
Radix(n, base, digits) ==
    IF n < base THEN digits[n + 1]
    ELSE Radix(n \div base, base, digits) \o digits[(n % base) + 1]

Decimal(n) == Radix(n, 10, LowerDigits)

RECURSIVE StripZeros(_)
StripZeros(n) == IF n # 0 /\ n % 10 = 0 THEN StripZeros(n \div 10) ELSE n

\* Scientific notation of the integer n scaled by 10^shift, with letter e.
Exp(n, shift, e) ==
    LET all  == Decimal(n)
        mant == Decimal(StripZeros(n))
        ex   == IF n = 0 THEN 0 ELSE Len(all) - 1 + shift
        frac == IF Len(mant) > 1 THEN "." \o SubSeq(mant, 2, Len(mant)) ELSE ""
        exs  == IF ex < 0 THEN "-" \o Decimal(0 - ex) ELSE Decimal(ex)
    IN  SubSeq(mant, 1, 1) \o frac \o e \o exs

RenderInteger(name, v) ==
    CASE name \in {"Display", "Debug"} -> Decimal(v)
      [] name = "LowerExp" -> Exp(v, 0, "e")
      [] name = "UpperExp" -> Exp(v, 0, "E")
      [] name = "Octal"    -> Radix(v, 8, LowerDigits)
      [] name = "Binary"   -> Radix(v, 2, LowerDigits)
      [] name = "LowerHex" -> Radix(v, 16, LowerDigits)
      [] name = "UpperHex" -> Radix(v, 16, UpperDigits)

\* h halves: h/2 as a decimal; Debug keeps a ".0" on whole numbers.
RenderFloat(name, h) ==
    CASE name = "Display" ->
            Decimal(h \div 2) \o (IF h % 2 = 1 THEN ".5" ELSE "")
      [] name = "Debug" ->
            Decimal(h \div 2) \o (IF h % 2 = 1 THEN ".5" ELSE ".0")
      [] name = "LowerExp" -> Exp(h * 5, -1, "e")
      [] name = "UpperExp" -> Exp(h * 5, -1, "E")

RenderString(name, s) ==
    CASE name = "Display" -> s
      [] name = "Debug"   -> "\"" \o s \o "\""

RenderPointer(name, a) == "0x" \o Radix(a, 16, LowerDigits)

Render(name, T, v) ==
    CASE T \in {"usize", "u32"} -> RenderInteger(name, v)
      [] T = "f64"    -> RenderFloat(name, v)
      [] T = "String" -> RenderString(name, v)
      [] T = "ptr"    -> RenderPointer(name, v)

-----------------------------------------------------------------------------
(* Formatter: the sink *)

\* A sink holding `buf` with `room` characters left.  It accepts characters
\* while they fit and fails on the first that does not.
Formatters == [buf : {"", ">"}, room : {0, 3, MaxRoom}]

write_str(f, s) ==
    IF Len(s) <= f.room
    THEN [res |-> "Ok",  f |-> [buf |-> f.buf \o s, room |-> f.room - Len(s)]]
    ELSE [res |-> "Err", f |-> [buf |-> f.buf \o SubSeq(s, 1, f.room), room |-> 0]]

\* <T as $name>::fmt(t, f)
fmt(name, T, t, f) == write_str(f, Render(name, T, t))

-----------------------------------------------------------------------------
(* FormatTrait via specialization *)

\* Steps a call takes, in order, for reasoning about what ran before what.
Step(ev, name, T) == [ev |-> ev, name |-> name, T |-> T]

\* Faulty variant: the fallback impl claims every type is supported.
Specialized_default_allowed_True == TRUE

\* impl<T> Specialized<T> for $name: default fn allowed() -> bool { false }
Specialized_default_allowed == FALSE

\* Faulty variant: the fallback perform returns Ok instead of panicking.
Specialized_default_perform_Ok(name, T, t, f) == [res |-> "Ok", f |-> f]

\* impl<T> Specialized<T> for $name: default fn perform(..) { panic!() }
Specialized_default_perform(name, T, t, f) == [res |-> "Panic", f |-> f]

\* Faulty variant: the specialized impl fails to report support.
Specialized_impl_allowed_False == FALSE

\* impl<T: $name> Specialized<T> for $name: fn allowed() -> bool { true }
Specialized_impl_allowed == TRUE

\* impl<T: $name> Specialized<T> for $name: fn perform(t, f) { t.fmt(f) }
Specialized_impl_perform(name, T, t, f) == fmt(name, T, t, f)

\* <$name as Specialized<T>>::allowed(): the most specific impl applies.
Specialized_allowed(name, T) ==
    IF Implements(T, name) THEN Specialized_impl_allowed
    ELSE Specialized_default_allowed

\* <$name as Specialized<T>>::perform(t, f)
Specialized_perform(name, T, t, f) ==
    IF Implements(T, name) THEN Specialized_impl_perform(name, T, t, f)
    ELSE Specialized_default_perform(name, T, t, f)

\* impl FormatTrait for $name: fn allowed<T>()
allowed(name, T) == Specialized_allowed(name, T)

\* impl FormatTrait for $name: fn perform<T>(t, f)
perform(name, T, t, f) == Specialized_perform(name, T, t, f)

-----------------------------------------------------------------------------
(* Container types, mappers *)

Field(name, T) == [name |-> name, type |-> T]

\* The container types (`This`) exercised: their fields in declaration order.
Structs ==
    { <<>>,
      <<Field("x", "usize"), Field("y", "f64")>>,
      <<Field("id", "u32"), Field("label", "String"), Field("addr", "ptr")>>,
      <<Field("o", "Opaque")>> }

\* Instances of a container type.
Instances(layout) ==
    { [i \in 1..Len(layout) |-> ValueOf(layout[i].type, v)] : v \in Variants }

\* A Mapper type: the closure |this| &this.<field index>, of a given size.
\* Size 0 is a closure capturing nothing; a non-zero size is a closure with
\* captured state or a function pointer.
Mapper(index, size) == [index |-> index, size |-> size]

MapperSizes == {0, 8}

size_of(mapper) == mapper.size

\* `Value` for a mapper over `layout`.
ValueType(layout, mapper) == layout[mapper.index + 1].type

\* mapper(this)
mapper_call(mapper, this) == this[mapper.index + 1]

-----------------------------------------------------------------------------
(* get_formatter *)

\* Faulty variant: the wrapper discards the result of perform.
inner_SwallowsError(fn, layout, this, f) ==
    LET T == ValueType(layout, fn.mapper)
        r == perform(fn.Format, T, mapper_call(fn.mapper, this), f)
    IN  [res |-> IF r.res = "Err" THEN "Ok" ELSE r.res, f |-> r.f,
         steps |-> <<Step("mapper", "", T), Step("perform", fn.Format, T)>>]

\* fn inner<Format, This, Value, Mapper>(this, fmt): the function behind the
\* returned pointer, for the instantiation fn = [Format, mapper].  Only
\* zero-sized mappers are ever instantiated here, for which zeroed::<Mapper>()
\* is the mapper itself.
inner(fn, layout, this, f) ==
    LET T == ValueType(layout, fn.mapper)
        r == perform(fn.Format, T, mapper_call(fn.mapper, this), f)
    IN  [res |-> r.res, f |-> r.f,
         steps |-> <<Step("mapper", "", T), Step("perform", fn.Format, T)>>]

\* Faulty variant: the formatter is handed out without asking `allowed`.
get_formatter_AlwaysSome(Format, layout, mapper) ==
    IF size_of(mapper) # 0
    THEN [ret |-> Panic, steps |-> <<>>]
    ELSE [ret   |-> Some([Format |-> Format, mapper |-> mapper]),
          steps |-> <<>>]

\* Faulty variant: `allowed` is asked before the size assertion.
get_formatter_AssertAfter(Format, layout, mapper) ==
    LET T == ValueType(layout, mapper)
    IN  IF ~allowed(Format, T)
        THEN [ret |-> None, steps |-> <<Step("allowed", Format, T)>>]
        ELSE IF size_of(mapper) # 0
        THEN [ret |-> Panic, steps |-> <<Step("allowed", Format, T)>>]
        ELSE [ret   |-> Some([Format |-> Format, mapper |-> mapper]),
              steps |-> <<Step("allowed", Format, T)>>]

\* Faulty variant: the size assertion is inverted.
get_formatter_AssertInverted(Format, layout, mapper) ==
    IF size_of(mapper) = 0
    THEN [ret |-> Panic, steps |-> <<>>]
    ELSE LET T == ValueType(layout, mapper)
         IN  IF allowed(Format, T)
             THEN [ret   |-> Some([Format |-> Format, mapper |-> mapper]),
                   steps |-> <<Step("allowed", Format, T)>>]
             ELSE [ret   |-> None,
                   steps |-> <<Step("allowed", Format, T)>>]

get_formatter(Format, layout, mapper) ==
    IF size_of(mapper) # 0
    THEN [ret |-> Panic, steps |-> <<>>]
    ELSE LET T == ValueType(layout, mapper)
         IN  IF allowed(Format, T)
             THEN [ret   |-> Some([Format |-> Format, mapper |-> mapper]),
                   steps |-> <<Step("allowed", Format, T)>>]
             ELSE [ret   |-> None,
                   steps |-> <<Step("allowed", Format, T)>>]

-----------------------------------------------------------------------------
(* get_as_usize *)

\* Faulty variant: every integer type is accepted as an index.
convert_AnyInteger(T, fn) == IF T \in {"usize", "u32"} THEN Some(fn) ELSE None

\* SpecUsize::convert: the default impl answers None, the impl for usize
\* hands the function back unchanged.
convert(T, fn) == IF T = "usize" THEN Some(fn) ELSE None

\* fn inner<This, Value, Mapper>(this) -> &Value inside get_as_usize
usize_inner(fn, this) == mapper_call(fn.mapper, this)

get_as_usize(layout, mapper) ==
    IF size_of(mapper) # 0
    THEN [ret |-> Panic, steps |-> <<>>]
    ELSE [ret   |-> convert(ValueType(layout, mapper), [mapper |-> mapper]),
          steps |-> <<Step("convert", "", ValueType(layout, mapper))>>]

-----------------------------------------------------------------------------
(* FormatArgs: the descriptor a derived implementation provides *)

NoDesc == [names |-> <<>>, field_count |-> 0, child |-> <<>>, usize |-> <<>>]

\* The table assembled for a container type: field names in declaration
\* order, the field count, and per field the result of get_formatter for
\* every format trait and of get_as_usize, each given a stateless accessor.
Descriptor(layout) ==
    [names       |-> [i \in 1..Len(layout) |-> layout[i].name],
     field_count |-> Len(layout),
     child       |-> [i \in 0..(Len(layout) - 1) |->
                        [F \in FormatTraits |->
                            get_formatter(F, layout, Mapper(i, 0)).ret]],
     usize       |-> [i \in 0..(Len(layout) - 1) |->
                        get_as_usize(layout, Mapper(i, 0)).ret]]

\* fn validate_name(name: &str) -> Option<usize>
validate_name(d, name) ==
    IF \E i \in 1..Len(d.names) : d.names[i] = name
    THEN Some((CHOOSE i \in 1..Len(d.names) : d.names[i] = name) - 1)
    ELSE None

\* Faulty variant: the range check is off by one.
validate_index_OffByOne(d, index) == 0 <= index /\ index <= d.field_count

\* fn validate_index(index: usize) -> bool
validate_index(d, index) == 0 <= index /\ index < d.field_count

\* fn get_child<F>(index: usize) -> Option<FormatFn<Self>>
get_child(d, F, index) ==
    IF index \in DOMAIN d.child THEN d.child[index][F] ELSE Panic

\* fn as_usize(index: usize) -> Option<fn(&Self) -> &usize>
as_usize(d, index) ==
    IF index \in DOMAIN d.usize THEN d.usize[index] ELSE Panic

-----------------------------------------------------------------------------
(* State *)

NoFormatter == [buf |-> "", room |-> 0]

\* The record of the most recent call: what was called, with what, the
\* sink before (f0) and after (f1), the outcome and the steps taken.
Call(op, name, index, arg, size, this, f0, f1, ret, steps) ==
    [op |-> op, name |-> name, index |-> index, arg |-> arg, size |-> size,
     this |-> this, f0 |-> f0, f1 |-> f1, ret |-> ret, steps |-> steps]

Query(op, name, index, arg) ==
    [op |-> op, name |-> name, index |-> index, arg |-> arg]

\* What the caller keeps: the answer to one earlier call, and whether other
\* calls have been made since it was returned.
NoHeld == [query |-> Query("none", "", 0, ""), ret |-> None, old |-> FALSE]

Older(h) == IF h.query.op = "none" THEN h ELSE [h EXCEPT !.old = TRUE]

Bool(b) == [tag |-> "Bool", val |-> b]

Value(v) == [tag |-> "Value", val |-> v]

Result(r) == [tag |-> r]

\* A caller may keep the value a call returned, or drop it.
Keep(query, ret) ==
    \/ held' = [query |-> query, ret |-> ret, old |-> FALSE]
    \/ held' = Older(held)

\* Names the interpreter may look up: every declared one and two others.
ProbeNames == {"x", "y", "id", "label", "addr", "o", "z", ""}

Init ==
    /\ This \in Structs
    /\ built = FALSE
    /\ desc = NoDesc
    /\ last = Call("none", "", 0, "", 0, <<>>, NoFormatter, NoFormatter, None, <<>>)
    /\ held = NoHeld
    /\ validated = {}

-----------------------------------------------------------------------------
(* Calls of the module's functions *)

\* get_formatter::<Format, This, Value, Mapper>(mapper)
GetFormatter(Format, index, size) ==
    LET r == get_formatter(Format, This, Mapper(index, size))
    IN  /\ last' = Call("get_formatter", Format, index, "", size, <<>>,
                        NoFormatter, NoFormatter, r.ret, r.steps)
        /\ IF r.ret = Panic THEN held' = Older(held)
           ELSE Keep(Query("get_formatter", Format, index, ""), r.ret)
        /\ UNCHANGED <<This, built, desc, validated>>

\* get_as_usize::<This, Value, Mapper>(mapper)
GetAsUsize(index, size) ==
    LET r == get_as_usize(This, Mapper(index, size))
    IN  /\ last' = Call("get_as_usize", "", index, "", size, <<>>,
                        NoFormatter, NoFormatter, r.ret, r.steps)
        /\ IF r.ret = Panic THEN held' = Older(held)
           ELSE Keep(Query("get_as_usize", "", index, ""), r.ret)
        /\ UNCHANGED <<This, built, desc, validated>>

\* Calling a kept formatter function: fn(this, fmt)
CallFormatter(this, f) ==
    /\ held.query.op \in {"get_formatter", "get_child"}
    /\ IsSome(held.ret)
    /\ LET r == inner(held.ret.val, This, this, f)
       IN  last' = Call("call_formatter", held.query.name, held.query.index,
                        "", 0, this, f, r.f, Result(r.res), r.steps)
    /\ held' = Older(held)
    /\ UNCHANGED <<This, built, desc, validated>>

\* Calling a kept index accessor: fn(this) -> &usize
CallAccessor(this) ==
    /\ held.query.op \in {"get_as_usize", "as_usize"}
    /\ IsSome(held.ret)
    /\ last' = Call("call_accessor", "", held.query.index, "", 0, this,
                    NoFormatter, NoFormatter,
                    Value(usize_inner(held.ret.val, this)),
                    <<Step("mapper", "", "usize")>>)
    /\ held' = Older(held)
    /\ UNCHANGED <<This, built, desc, validated>>

\* Format::perform::<T>(&this.<index>, fmt) called directly
Perform(Format, index, this, f) ==
    LET T == This[index + 1].type
        r == perform(Format, T, this[index + 1], f)
    IN  /\ last' = Call("perform", Format, index, "", 0, this, f, r.f,
                        Result(r.res), <<Step("perform", Format, T)>>)
        /\ held' = Older(held)
        /\ UNCHANGED <<This, built, desc, validated>>

-----------------------------------------------------------------------------
(* Calls of a container type's FormatArgs implementation *)

\* The descriptor comes into being once.
Build ==
    /\ ~built
    /\ built' = TRUE
    /\ desc' = Descriptor(This)
    /\ last' = Call("build", "", 0, "", 0, <<>>, NoFormatter, NoFormatter,
                    None, <<>>)
    /\ UNCHANGED <<This, held, validated>>

ValidateName(name) ==
    /\ built
    /\ LET r == validate_name(desc, name)
       IN  /\ last' = Call("validate_name", "", 0, name, 0, <<>>,
                           NoFormatter, NoFormatter, r, <<>>)
           /\ validated' = IF IsSome(r) THEN validated \cup {r.val}
                           ELSE validated
           /\ Keep(Query("validate_name", "", 0, name), r)
    /\ UNCHANGED <<This, built, desc>>

ValidateIndex(index) ==
    /\ built
    /\ LET r == validate_index(desc, index)
       IN  /\ last' = Call("validate_index", "", index, "", 0, <<>>,
                           NoFormatter, NoFormatter, Bool(r), <<>>)
           /\ validated' = IF r THEN validated \cup {index} ELSE validated
           /\ Keep(Query("validate_index", "", index, ""), Bool(r))
    /\ UNCHANGED <<This, built, desc>>

GetChild(F, index) ==
    /\ built
    /\ LET r == get_child(desc, F, index)
       IN  /\ last' = Call("get_child", F, index, "", 0, <<>>,
                           NoFormatter, NoFormatter, r, <<>>)
           /\ IF r = Panic THEN held' = Older(held)
              ELSE Keep(Query("get_child", F, index, ""), r)
    /\ UNCHANGED <<This, built, desc, validated>>

AsUsize(index) ==
    /\ built
    /\ LET r == as_usize(desc, index)
       IN  /\ last' = Call("as_usize", "", index, "", 0, <<>>,
                           NoFormatter, NoFormatter, r, <<>>)
           /\ IF r = Panic THEN held' = Older(held)
              ELSE Keep(Query("as_usize", "", index, ""), r)
    /\ UNCHANGED <<This, built, desc, validated>>

-----------------------------------------------------------------------------
(* Specifications *)

Fields == 0..(Len(This) - 1)

\* Direct use of get_formatter, get_as_usize and the format traits.
Next ==
    \/ \E F \in FormatTraits, i \in Fields, size \in MapperSizes :
          GetFormatter(F, i, size)
    \/ \E i \in Fields, size \in MapperSizes : GetAsUsize(i, size)
    \/ \E this \in Instances(This), f \in Formatters : CallFormatter(this, f)
    \/ \E this \in Instances(This) : CallAccessor(this)
    \/ \E F \in FormatTraits, i \in Fields, this \in Instances(This),
          f \in Formatters : Perform(F, i, this, f)

Spec == Init /\ [][Next]_vars

\* A container type's descriptor, built once and then queried by an
\* interpreter that may call the formatters and accessors it obtains.
NextDescriptor ==
    \/ Build
    \/ \E name \in ProbeNames : ValidateName(name)
    \/ \E i \in 0..MaxIndex : ValidateIndex(i)
    \/ \E F \in FormatTraits, i \in 0..MaxIndex : GetChild(F, i)
    \/ \E i \in 0..MaxIndex : AsUsize(i)
    \/ \E this \in Instances(This), f \in Formatters : CallFormatter(this, f)
    \/ \E this \in Instances(This) : CallAccessor(this)

SpecDescriptor == Init /\ [][NextDescriptor]_vars

-----------------------------------------------------------------------------
(* Properties *)

LastType == This[last.index + 1].type

PerformSteps == {k \in 1..Len(last.steps) : last.steps[k].ev = "perform"}

\* C1: get_formatter given a zero-sized mapper returns Some(formatter) when
\* the field type implements the format trait and None when it does not.
C1_FormatterIffSupported ==
    (last.op = "get_formatter" /\ last.size = 0) =>
        /\ Implements(LastType, last.name) =>
              last.ret = Some([Format |-> last.name,
                               mapper |-> Mapper(last.index, 0)])
        /\ ~Implements(LastType, last.name) => last.ret = None

\* A float field was refused LowerHex while a formatter obtained earlier
\* for a supported pair is still kept.
C1_Witness ==
    /\ last.op = "get_formatter" /\ last.size = 0
    /\ LastType = "f64" /\ last.name = "LowerHex" /\ last.ret = None
    /\ held.query.op = "get_formatter" /\ IsSome(held.ret)

\* C2: calling a formatter obtained from get_formatter leaves exactly the
\* sink contents and the result that the trait's fmt gives when applied
\* directly to the projected field with the same sink.
C2_FormatterEqualsDirect ==
    last.op = "call_formatter" =>
        LET d == fmt(last.name, LastType, last.this[last.index + 1], last.f0)
        IN  /\ last.ret = Result(d.res)
            /\ last.f1 = d.f

\* A formatter call that failed part-way on a sink that already held text.
C2_Witness ==
    /\ last.op = "call_formatter"
    /\ last.ret = Result("Err")
    /\ last.f0.buf = ">" /\ last.f0.room = 3
    /\ last.f1.buf = ">0x1"

\* C3: get_as_usize given a zero-sized mapper returns Some exactly for a
\* usize field and None for any other type; the accessor it returns yields
\* the field's own value.
C3_UsizeOnly ==
    /\ (last.op = "get_as_usize" /\ last.size = 0) =>
          /\ LastType = "usize" =>
                last.ret = Some([mapper |-> Mapper(last.index, 0)])
          /\ LastType # "usize" => last.ret = None
    /\ last.op = "call_accessor" =>
          /\ LastType = "usize"
          /\ last.ret = Value(last.this[last.index + 1])

\* The accessor of a usize field was called and gave 255.
C3_Witness ==
    /\ last.op = "call_accessor"
    /\ last.ret = Value(255)

\* C4: with a descriptor and an interpreter using it, perform runs only
\* for (trait, type) pairs for which allowed is true, and an unsupported
\* pair is answered None without perform running.
C4_PerformOnlyIfAllowed ==
    /\ \A k \in PerformSteps :
          allowed(last.steps[k].name, last.steps[k].T)
    /\ (last.op = "get_child" /\ last.index \in Fields
            /\ ~allowed(last.name, LastType)) =>
          (last.ret = None /\ PerformSteps = {})

\* A formatter obtained from the descriptor ran perform.
C4_Witness ==
    /\ built
    /\ last.op = "call_formatter"
    /\ held.query.op = "get_child"
    /\ PerformSteps # {}

\* C5: with a mapper of non-zero size get_formatter and get_as_usize panic
\* before allowed, convert, perform or the mapper is reached.
C5_NonZeroSizedPanics ==
    (last.op \in {"get_formatter", "get_as_usize"} /\ last.size # 0) =>
        (last.ret = Panic /\ last.steps = <<>>)

\* get_formatter panicked on a sized mapper for an unsupported pair.
C5_Witness ==
    /\ last.op = "get_formatter" /\ last.size # 0
    /\ ~Implements(LastType, last.name)
    /\ last.ret = Panic

\* C6: validate_index(i) is true exactly for 0 <= i < N, and validate_name
\* returns Some(i) exactly for the i-th declared name, None otherwise.
C6_ValidateExact ==
    /\ last.op = "validate_index" =>
          last.ret = Bool(last.index \in Fields)
    /\ last.op = "validate_name" =>
          /\ \A i \in Fields :
                (last.ret = Some(i)) <=> (This[i + 1].name = last.arg)
          /\ (last.ret = None) <=>
                (\A i \in Fields : This[i + 1].name # last.arg)
          /\ last.ret.tag \in {"Some", "None"}

\* The second field's name was resolved to index 1.
C6_Witness ==
    /\ last.op = "validate_name"
    /\ last.arg = "label" /\ last.ret = Some(1)

\* C7: get_child and as_usize called with an index that validate_name or
\* validate_index accepted return Some or None and do not panic.
C7_ValidatedNeverPanics ==
    (last.op \in {"get_child", "as_usize"} /\ last.index \in validated) =>
        last.ret.tag \in {"Some", "None"}

\* as_usize answered None for a validated index.
C7_Witness ==
    /\ last.op = "as_usize"
    /\ last.index \in validated
    /\ last.ret = None

\* C8: get_child and as_usize panic for an index outside [0, field_count);
\* None is returned only for an in-range index whose field type lacks the
\* trait or is not usize.
C8_OutOfRangePanics ==
    /\ (last.op \in {"get_child", "as_usize"} /\ last.index \notin Fields) =>
          last.ret = Panic
    /\ (last.op = "get_child" /\ last.ret = None) =>
          (last.index \in Fields /\ ~Implements(LastType, last.name))
    /\ (last.op = "as_usize" /\ last.ret = None) =>
          (last.index \in Fields /\ LastType # "usize")

\* get_child panicked on the index one past the last field.
C8_Witness ==
    /\ last.op = "get_child"
    /\ Len(This) > 0 /\ last.index = Len(This)
    /\ last.ret = Panic

\* C10: perform called directly for a (trait, type) pair for which allowed
\* is false panics, giving no result and leaving the sink untouched.
C10_DisallowedPerformPanics ==
    (last.op = "perform" /\ ~allowed(last.name, LastType)) =>
        (last.ret = Result("Panic") /\ last.f1 = last.f0)

\* LowerHex::perform was called on a float field and panicked.
C10_Witness ==
    /\ last.op = "perform"
    /\ last.name = "LowerHex" /\ LastType = "f64"
    /\ last.ret = Result("Panic")
    /\ last.f0.buf = ">"

====
